---- MODULE Spec2Model ----
(***************************************************************************)
(* Model of the unit_interval crate (src/src/lib.rs): UnitInterval<T>, a   *)
(* value kept in 0.0..=1.0, for T = f32 and T = f64.                       *)
(*                                                                         *)
(* f32 and f64 are modelled as binary floating-point formats of the IEEE   *)
(* 754 shape (sign, subnormals, normals, infinities, NaN, round to nearest *)
(* ties to even) with scaled-down field widths: MantBits32/MinExp32 stand  *)
(* for f32's 23 fraction bits and minimum exponent -126, MantBits64 and    *)
(* MinExp64 for f64's 52 and -1022.  A finite value is sign * mag / 2^Scale*)
(* where 2^-Scale is the smallest positive f64 value.                      *)
(***************************************************************************)
EXTENDS Integers, FiniteSets, Sequences, TLC

VARIABLES u, last, pc, i

vars == <<u, last, pc, i>>

\* ------------------------------------------------------------------ bounds
MantBits32 == 2
MinExp32 == 2
MantBits64 == 3
MinExp64 == 3
\* iterations of the loop in tests::rand_distribution (1000 in the source)
LoopIters == 30

\* --------------------------------------------------------- floating point
RECURSIVE Pow2(_)
Pow2(n) == IF n <= 0 THEN 1 ELSE 2 * Pow2(n - 1)

Types == {"f32", "f64"}

Fmt(ty) == IF ty = "f32" THEN [m |-> MantBits32, e |-> MinExp32]
                         ELSE [m |-> MantBits64, e |-> MinExp64]

\* largest exponent of a finite value of the format (IEEE 754: 1 - emin)
EMax(ty) == Fmt(ty).e + 1

Scale == MinExp64 + MantBits64

NaN == [k |-> "nan", neg |-> FALSE, mag |-> 0]
Inf(neg) == [k |-> "inf", neg |-> neg, mag |-> 0]
Fin(neg, mag) == [k |-> "fin", neg |-> neg, mag |-> mag]

\* T::zero() and T::one()
zero == Fin(FALSE, 0)
one == Fin(FALSE, Pow2(Scale))

\* magnitudes (in units of 2^-Scale) of the finite values of a format:
\* significand s of at most m+1 bits, at each exponent j of the format
Mags(ty) ==
    LET f == Fmt(ty) IN
    { s * Pow2(Scale - f.e - f.m + j) :
        s \in 0 .. (Pow2(f.m + 1) - 1), j \in 0 .. (f.e + EMax(ty)) }

ValuesOf(ty) ==
    {NaN, Inf(FALSE), Inf(TRUE)}
        \cup { Fin(n, x) : n \in BOOLEAN, x \in Mags(ty) }

F32 == ValuesOf("f32")
F64 == ValuesOf("f64")
Values(ty) == IF ty = "f32" THEN F32 ELSE F64

\* the element of a one-element set; in Only({ F(v) : v \in {x} }) the operand
\* x is evaluated once, to a value, before F is applied
Only(S) == CHOOSE r \in S : TRUE

\* floor(log2(n / d)) for n, d > 0
RECURSIVE FloorLog2(_, _)
FloorLog2(n, d) ==
    IF n >= 2 * d THEN FloorLog2(n, 2 * d) + 1
    ELSE IF n < d THEN FloorLog2(2 * n, d) - 1
    ELSE 0

\* n / d (d > 0) rounded to the nearest integer, ties to even
RoundHalfEven(n0, d0) ==
    LET op(n, d) ==
          LET q == n \div d
              r == n % d
          IN  IF 2 * r > d \/ (2 * r = d /\ q % 2 = 1) THEN q + 1 ELSE q
    IN  Only({ op(v, w) : v \in {n0}, w \in {d0} })

\* The value of format ty nearest to the exact (-1)^neg * n / d (n >= 0, d > 0):
\* IEEE 754 roundTiesToEven, with gradual underflow and overflow to infinity.
Round(ty, neg, n0, d0) ==
    LET f == Fmt(ty)
        \* the exponent of the exact value, not below the format's minimum
        exponent(n, d) ==
            LET clip(e) == IF e < -f.e THEN -f.e ELSE e
            IN  Only({ clip(v) : v \in {FloorLog2(n, d)} })
        op(n, d) ==
          IF n = 0 THEN Fin(neg, 0)
          ELSE
            \* t: exponent of the unit in the last place; t + Scale >= 0
            \* because Scale >= f.e + f.m
            LET at(t) ==
                  LET finish(q) ==
                        IF q * Pow2(t + Scale) >= Pow2(EMax(ty) + 1 + Scale)
                        THEN Inf(neg) ELSE Fin(neg, q * Pow2(t + Scale))
                      quotient ==
                        IF t >= 0 THEN RoundHalfEven(n, d * Pow2(t))
                                  ELSE RoundHalfEven(n * Pow2(-t), d)
                  IN  Only({ finish(v) : v \in {quotient} })
            IN  Only({ at(v) : v \in {exponent(n, d) - f.m} })
    IN  Only({ op(v, w) : v \in {n0}, w \in {d0} })

\* signed numerator of a finite value
Num(a) == IF a.neg THEN -a.mag ELSE a.mag

Abs(x) == IF x < 0 THEN -x ELSE x

\* a * b on T (std::ops::Mul for f32 / f64)
FMul(ty, x, y) ==
    LET op(a, b) ==
          LET neg == (a.neg # b.neg) IN
          IF a.k = "nan" \/ b.k = "nan" THEN NaN
          ELSE IF a.k = "inf" \/ b.k = "inf" THEN
              IF (a.k = "fin" /\ a.mag = 0) \/ (b.k = "fin" /\ b.mag = 0)
              THEN NaN ELSE Inf(neg)
          ELSE Round(ty, neg, a.mag * b.mag, Pow2(Scale) * Pow2(Scale))
    IN  Only({ op(v, w) : v \in {x}, w \in {y} })

\* a - b on T (std::ops::Sub for f32 / f64)
FSub(ty, x, y) ==
    LET op(a, b) ==
          IF a.k = "nan" \/ b.k = "nan" THEN NaN
          ELSE IF a.k = "inf" THEN
              IF b.k = "inf" /\ b.neg = a.neg THEN NaN ELSE a
          ELSE IF b.k = "inf" THEN Inf(~b.neg)
          ELSE IF Num(a) = Num(b) THEN Fin(a.neg /\ ~b.neg, 0)
          ELSE Round(ty, Num(a) < Num(b), Abs(Num(a) - Num(b)), Pow2(Scale))
    IN  Only({ op(v, w) : v \in {x}, w \in {y} })

\* a / b on T (std::ops::Div for f32 / f64)
FDiv(ty, x, y) ==
    LET op(a, b) ==
          LET neg == (a.neg # b.neg) IN
          IF a.k = "nan" \/ b.k = "nan" THEN NaN
          ELSE IF a.k = "inf" THEN (IF b.k = "inf" THEN NaN ELSE Inf(neg))
          ELSE IF b.k = "inf" THEN Fin(neg, 0)
          ELSE IF b.mag = 0 THEN (IF a.mag = 0 THEN NaN ELSE Inf(neg))
          ELSE Round(ty, neg, a.mag, b.mag)
    IN  Only({ op(v, w) : v \in {x}, w \in {y} })

\* a + b on T
FAdd(ty, a, b) == FSub(ty, a, [b EXCEPT !.neg = ~b.neg])

\* `v as f32` / `v as f64`: the numeric cast to the target format
Cast(ty, v) ==
    IF v.k = "fin" THEN Round(ty, v.neg, v.mag, Pow2(Scale)) ELSE v

\* PartialOrd::partial_cmp on T: None when either side is NaN, -0.0 == 0.0
FCmp(x, y) ==
    LET op(a, b) ==
          IF a.k = "nan" \/ b.k = "nan" THEN "None"
          ELSE LET big == Pow2(Scale + Scale)
                   key(v) == IF v.k = "inf" THEN (IF v.neg THEN -big ELSE big)
                                            ELSE Num(v)
               IN  IF key(a) < key(b) THEN "Less"
                   ELSE IF key(a) > key(b) THEN "Greater"
                   ELSE "Equal"
    IN  Only({ op(v, w) : v \in {x}, w \in {y} })

\* PartialEq::eq on T
FEq(a, b) == FCmp(a, b) = "Equal"

\* PartialOrd::le on T
FLe(a, b) == FCmp(a, b) \in {"Less", "Equal"}

\* RangeInclusive::contains: start <= item && item <= end
Contains(start, end, item) == FLe(start, item) /\ FLe(item, end)

\* the representable value just below a positive finite x (bit pattern - 1)
NextDown(ty, x) ==
    LET below == { y \in Mags(ty) : y < x.mag }
    IN  Fin(FALSE, CHOOSE y \in below : \A z \in below : z <= y)

\* ------------------------------------------------- the random source (rng)
\* rand's uniform float sampler over an inclusive range, as the crate calls it
\* The words an Rng can return, after the sampler has kept the fraction bits
\* of the target format (u32 >> 9 for f32, u64 >> 12 for f64).
RngWords(ty) == 0 .. (Pow2(Fmt(ty).m) - 1)

\* 1 - epsilon, the largest value the sampler's [0, 1) draw can take
MaxRand(ty) == Fin(FALSE, Pow2(Scale) - Pow2(Scale - Fmt(ty).m))

\* the sampler's scale for low..=high: (high - low) / max_rand, decreased
\* while scale * max_rand + low rounds above high
RECURSIVE FitScale(_, _, _, _)
FitScale(ty, scale0, low, high) ==
    LET op(scale, max_rand) ==
          IF FCmp(FAdd(ty, FMul(ty, scale, max_rand), low), high) = "Greater"
          THEN FitScale(ty, NextDown(ty, scale), low, high)
          ELSE scale
    IN  Only({ op(v, w) : v \in {scale0}, w \in {MaxRand(ty)} })

\* rng.gen_range(low..=high) for a float type, with `word` the rng's output:
\* value0_1 = (1.word) - 1.0; value0_1 * scale + low
gen_range_inclusive(ty, low, high, word) ==
    LET value1_2 == Fin(FALSE, Pow2(Scale) + word * Pow2(Scale - Fmt(ty).m))
        value0_1 == FSub(ty, value1_2, one)
        scale == FitScale(ty, FDiv(ty, FSub(ty, high, low), MaxRand(ty)), low, high)
    IN  FAdd(ty, FMul(ty, value0_1, scale), low)

\* ------------------------------------------------------------ UnitInterval
None == [tag |-> "None"]
Some(x) == [tag |-> "Some", val |-> x]
Nil == [tag |-> "Nil"]

\* the tuple struct UnitInterval<T>(T), built without a check
UnitInterval(ty, value) == [ty |-> ty, val |-> value]

\* new with the bounds tested by exclusion: value < 0 || value > 1 => None
new_by_exclusion(ty, value) ==
    IF FCmp(value, zero) = "Less" \/ FCmp(value, one) = "Greater"
    THEN None ELSE Some(UnitInterval(ty, value))

\* new over the half-open range zero..one
new_half_open(ty, value) ==
    IF FLe(zero, value) /\ FCmp(value, one) = "Less"
    THEN Some(UnitInterval(ty, value)) ELSE None

new(ty, value) ==
    IF Contains(zero, one, value) THEN Some(UnitInterval(ty, value)) ELSE None

get(self) == self.val

as_f64(self) == UnitInterval("f64", Cast("f64", self.val))

\* as_f32 on a target that flushes subnormal results to zero
as_f32_flush(self) ==
    LET r == Cast("f32", self.val) IN
    UnitInterval("f32",
        IF r.k = "fin" /\ r.mag < Pow2(Scale - MinExp32) THEN Fin(r.neg, 0) ELSE r)

as_f32(self) == UnitInterval("f32", Cast("f32", self.val))

\* From<UnitInterval<f32>> for UnitInterval<f64>
from_f32(value) == as_f64(value)

\* From<UnitInterval<f64>> for UnitInterval<f32>
from_f64(value) == as_f32(value)

\* PartialEq<T> for UnitInterval<T>
eq(self, other) == FEq(self.val, other)

\* PartialOrd<T> for UnitInterval<T>
partial_cmp(self, other) == FCmp(self.val, other)

\* mul written with + in place of *
mul_as_add(self, rhs) == UnitInterval(self.ty, FAdd(self.ty, self.val, rhs.val))

mul(self, rhs) == UnitInterval(self.ty, FMul(self.ty, self.val, rhs.val))

\* complement with the operands of the subtraction swapped
complement_swapped(self) == UnitInterval(self.ty, FSub(self.ty, self.val, one))

complement(self) == UnitInterval(self.ty, FSub(self.ty, one, self.val))

\* not as arithmetic negation of the wrapped value
not_as_neg(self) == UnitInterval(self.ty, [self.val EXCEPT !.neg = ~self.val.neg])

not(self) == complement(self)

\* PartialEq<UnitInterval<$ty>> for $ty
raw_eq(self, other) == FEq(self, get(other))

\* the raw-to-wrapper comparison with its operands in the wrapper's order
raw_partial_cmp_swapped(self, other) == FCmp(get(other), self)

\* PartialOrd<UnitInterval<$ty>> for $ty
raw_partial_cmp(self, other) == FCmp(self, get(other))

\* From<UnitInterval<$ty>> for $ty
into_raw(value) == value.val

\* rng.gen_range(low..high), the half-open sampler: value0_1 * (high - low) + low
gen_range_half_open(ty, low, high, word) ==
    LET value1_2 == Fin(FALSE, Pow2(Scale) + word * Pow2(Scale - Fmt(ty).m))
        value0_1 == FSub(ty, value1_2, one)
    IN  FAdd(ty, FMul(ty, value0_1, FSub(ty, high, low)), low)

\* sampling from 0.0..1.0, exclusive of the upper endpoint
sample_half_open(ty, word) ==
    UnitInterval(ty, gen_range_half_open(ty, zero, one, word))

\* sampling from -1.0..=1.0
sample_signed(ty, word) ==
    UnitInterval(ty, gen_range_inclusive(ty, Fin(TRUE, Pow2(Scale)), one, word))

\* Distribution<UnitInterval<$ty>> for Standard
sample(ty, word) == UnitInterval(ty, gen_range_inclusive(ty, zero, one, word))

\* #[derive(Default)]: UnitInterval(T::default())
default(ty) == UnitInterval(ty, zero)

\* #[derive(PartialEq)]: equality of two instances of the same type
derived_eq(self, other) == FEq(self.val, other.val)

\* Ordering::reverse on the result of partial_cmp
Reverse(o) == IF o = "Less" THEN "Greater" ELSE IF o = "Greater" THEN "Less" ELSE o

\* ------------------------------------------------------------ the program
\* u    : the Option<UnitInterval<T>> the caller holds
\* last : the last call: its name, receiver x, other operand y, result out
\* pc, i: position and loop counter of the test functions (TestSpec)
Op(op, x, y, out) == [op |-> op, x |-> x, y |-> y, out |-> out]

Init ==
    /\ u = None
    /\ last = Op("start", Nil, Nil, Nil)
    /\ pc = "api"
    /\ i = 0

Live == u.tag = "Some"

New(ty, value) ==
    /\ u' = new(ty, value)
    /\ last' = Op("new", Nil, value, u')
    /\ UNCHANGED <<pc, i>>

Default(ty) ==
    /\ u' = Some(default(ty))
    /\ last' = Op("default", Nil, Nil, u'.val)
    /\ UNCHANGED <<pc, i>>

Sample(ty, word) ==
    /\ u' = Some(sample(ty, word))
    /\ last' = Op("sample", Nil, Nil, u'.val)
    /\ UNCHANGED <<pc, i>>

Get ==
    /\ Live
    /\ last' = Op("get", u.val, Nil, get(u.val))
    /\ UNCHANGED <<pc, i>>
    /\ u' = u

IntoRaw ==
    /\ Live
    /\ last' = Op("into", u.val, Nil, into_raw(u.val))
    /\ UNCHANGED <<pc, i>>
    /\ u' = u

\* u * rhs, rhs another instance of the same type obtained from new
Mul ==
    /\ Live
    /\ \E value \in Values(u.val.ty) :
        LET rhs == new(u.val.ty, value) IN
        /\ rhs.tag = "Some"
        /\ u' = Some(mul(u.val, rhs.val))
        /\ last' = Op("mul", u.val, rhs.val, u'.val)
        /\ UNCHANGED <<pc, i>>

Complement ==
    /\ Live
    /\ u' = Some(complement(u.val))
    /\ last' = Op("complement", u.val, Nil, u'.val)
    /\ UNCHANGED <<pc, i>>

Not ==
    /\ Live
    /\ u' = Some(not(u.val))
    /\ last' = Op("not", u.val, Nil, u'.val)
    /\ UNCHANGED <<pc, i>>

AsF64 ==
    /\ Live /\ u.val.ty = "f32"
    /\ u' = Some(as_f64(u.val))
    /\ last' = Op("as_f64", u.val, Nil, u'.val)
    /\ UNCHANGED <<pc, i>>

AsF32 ==
    /\ Live /\ u.val.ty = "f64"
    /\ u' = Some(as_f32(u.val))
    /\ last' = Op("as_f32", u.val, Nil, u'.val)
    /\ UNCHANGED <<pc, i>>

FromF32 ==
    /\ Live /\ u.val.ty = "f32"
    /\ u' = Some(from_f32(u.val))
    /\ last' = Op("from_f32", u.val, Nil, u'.val)
    /\ UNCHANGED <<pc, i>>

FromF64 ==
    /\ Live /\ u.val.ty = "f64"
    /\ u' = Some(from_f64(u.val))
    /\ last' = Op("from_f64", u.val, Nil, u'.val)
    /\ UNCHANGED <<pc, i>>

Next ==
    \/ \E ty \in Types : \E value \in Values(ty) : New(ty, value)
    \/ \E ty \in Types : Default(ty)
    \/ \E ty \in Types : \E word \in RngWords(ty) : Sample(ty, word)
    \/ Get
    \/ IntoRaw
    \/ Mul
    \/ Complement
    \/ Not
    \/ AsF64
    \/ AsF32
    \/ FromF32
    \/ FromF64

Spec == Init /\ [][Next]_vars

\* ---------------------------------------- comparisons with a raw value
\* let x = UnitInterval::new(..).unwrap(); let v: T = ..; then x == v,
\* v == x, x.partial_cmp(&v), v.partial_cmp(&x) in any order
CmpInit ==
    /\ \E ty \in Types : \E value \in Values(ty) :
          /\ new(ty, value).tag = "Some"
          /\ u = new(ty, value)
          /\ \E v \in Values(ty) : last = Op("let", u.val, v, Nil)
    /\ pc = "cmp"
    /\ i = 0

Eq ==
    /\ last' = Op("eq", u.val, last.y, eq(u.val, last.y))
    /\ UNCHANGED <<u, pc, i>>

RawEq ==
    /\ last' = Op("raw_eq", u.val, last.y, raw_eq(last.y, u.val))
    /\ UNCHANGED <<u, pc, i>>

PartialCmp ==
    /\ last' = Op("partial_cmp", u.val, last.y, partial_cmp(u.val, last.y))
    /\ UNCHANGED <<u, pc, i>>

RawPartialCmp ==
    /\ last' = Op("raw_partial_cmp", u.val, last.y, raw_partial_cmp(last.y, u.val))
    /\ UNCHANGED <<u, pc, i>>

CmpNext ==
    \/ Eq
    \/ RawEq
    \/ PartialCmp
    \/ RawPartialCmp

CmpSpec == CmpInit /\ [][CmpNext]_vars

\* ------------------------------------------------------ the sampling tests
\* tests::rand_distribution and tests::rand_generates_1, one loop iteration
\* per step, the thread rng's next word chosen freely
TestInit ==
    /\ u = None
    /\ last = Op("start", Nil, Nil, Nil)
    /\ pc \in {"rand_distribution", "rand_generates_1"}
    /\ i = 0

\* let x = rng.gen::<UnitInterval<f32>>().get(); assert!(new(x).is_some())
DistIter(word) ==
    /\ pc = "rand_distribution"
    /\ i < LoopIters
    /\ LET x == get(sample("f32", word)) IN
        /\ u' = new("f32", x)
        /\ last' = Op("new", Nil, x, u')
        /\ IF u'.tag = "Some"
           THEN pc' = pc /\ i' = i + 1
           ELSE pc' = "panicked" /\ i' = i

DistDone ==
    /\ pc = "rand_distribution"
    /\ i = LoopIters
    /\ pc' = "passed"
    /\ UNCHANGED <<u, last, i>>

\* let x = rng.gen::<UnitInterval<f32>>(); if x == 1.0 { return; }
Gen1Iter(word) ==
    /\ pc = "rand_generates_1"
    /\ u' = Some(sample("f32", word))
    /\ last' = Op("eq", u'.val, one, eq(u'.val, one))
    /\ pc' = IF last'.out THEN "returned" ELSE pc
    /\ i' = i

TestNext ==
    \/ \E word \in RngWords("f32") : DistIter(word)
    \/ DistDone
    \/ \E word \in RngWords("f32") : Gen1Iter(word)

\* a fair random source: every word keeps being drawn
TestSpec ==
    /\ TestInit
    /\ [][TestNext]_vars
    /\ \A word \in RngWords("f32") : WF_vars(Gen1Iter(word))

\* ------------------------------------------------------------- properties
half == Fin(FALSE, Pow2(Scale - 1))
quarter == Fin(FALSE, Pow2(Scale - 2))

\* v is a number of the real interval [0, 1] (either zero counts)
InUnit(v) == v.k = "fin" /\ (v.mag = 0 \/ (~v.neg /\ v.mag <= Pow2(Scale)))

\* zero(T) <= w.get() <= one(T)
InRange(w) == FLe(zero, get(w)) /\ FLe(get(w), one)

IsInstance(w) == DOMAIN w = {"ty", "val"}

\* v is unordered with respect to zero or one
Unordered(v) == FCmp(v, zero) = "None" \/ FCmp(v, one) = "None"

\* C1: new(v) is Some(w) exactly when 0 <= v <= 1 and None otherwise, both
\* boundaries included, and then w.get() is v itself.
C1_NewChecksRange ==
    last.op = "new" =>
        /\ (last.out.tag = "Some") <=> InUnit(last.y)
        /\ (last.out = None) <=> ~InUnit(last.y)
        /\ last.out.tag = "Some" => get(last.out.val) = last.y

C1_Witness ==
    /\ pc = "api"
    /\ last.op = "new"
    /\ last.y = one
    /\ last.out.tag = "Some"

\* C2: every live instance, however produced (new, default, sampling, then
\* any sequence of mul, complement, not, as_f32, as_f64, from), holds a value
\* with zero <= value <= one.
C2_AlwaysInRange ==
    /\ Live => InRange(u.val)
    /\ IsInstance(last.out) => InRange(last.out)

\* an f64 instance below 1.0 narrowed to an f32 instance holding exactly 1.0
C2_Witness ==
    /\ last.op = "as_f32"
    /\ get(last.x) # one
    /\ Live
    /\ get(u.val) = one

\* C3: a * b holds the product a.get() * b.get() of T (the value of T nearest
\* to the exact product) and new accepts it again; 0.5 * 0.5 holds 0.25.
C3_MulClosed ==
    last.op = "mul" =>
        LET ty == last.x.ty
            a == get(last.x)
            b == get(last.y)
            r == get(last.out)
            err(z) == Abs(z * Pow2(Scale) - a.mag * b.mag)
        IN  /\ last.out = UnitInterval(ty, FMul(ty, a, b))
            /\ r.k = "fin"
            /\ r.mag \in Mags(ty)
            /\ \A z \in Mags(ty) : err(r.mag) <= err(z)
            /\ new(ty, r).tag = "Some"
            /\ (a = half /\ b = half) => r = quarter

C3_Witness ==
    /\ last.op = "mul"
    /\ get(last.x) = half
    /\ get(last.y) = half
    /\ get(last.out) = quarter

\* C4: x.complement() holds one - x.get(), !x is the same instance, and
\* complement(0) is 1, complement(1) is 0, complement(0.5) is 0.5.
C4_Complement ==
    /\ last.op = "complement" =>
        /\ last.out = UnitInterval(last.x.ty, FSub(last.x.ty, one, get(last.x)))
        /\ not(last.x) = last.out
        /\ get(last.x) = zero => get(last.out) = one
        /\ get(last.x) = one => get(last.out) = zero
        /\ get(last.x) = half => get(last.out) = half
    /\ last.op = "not" =>
        /\ last.out = complement(last.x)
        /\ get(last.x) = zero => get(last.out) = one
        /\ get(last.x) = one => get(last.out) = zero

C4_Witness ==
    /\ last.op = "not"
    /\ get(last.x) = one
    /\ get(last.out) = zero

\* one - x.get() is a value of T: the subtraction in complement does not round
ExactComplement(x) == (one.mag - get(x).mag) \in Mags(x.ty)

\* C5 as stated: complement(complement(x)) == x for every valid x.
C5_InvolutionAlways ==
    last.op = "complement" => derived_eq(complement(last.out), last.x)

\* C5, amended: complement(complement(x)) == x exactly for the x whose
\* complement one - x.get() is a value of T, which covers every x >= 0.5.
C5_InvolutionWhenExact ==
    last.op = "complement" =>
        /\ derived_eq(complement(last.out), last.x) <=> ExactComplement(last.x)
        /\ FLe(half, get(last.x)) => ExactComplement(last.x)

\* an x strictly between 0 and 0.5 whose complement is exact
C5_Witness ==
    /\ last.op = "complement"
    /\ ExactComplement(last.x)
    /\ get(last.x).mag # 0
    /\ FCmp(get(last.x), half) = "Less"
    /\ derived_eq(complement(last.out), last.x)

\* C6: comparing a wrapper x with a raw v is comparing x.get() with v, in
\* both directions: x == v, v == x and x.get() == v agree, x.partial_cmp(v)
\* is x.get().partial_cmp(v), and v.partial_cmp(x) is its reverse.
C6_CompareLikeRaw ==
    LET x == last.x
        v == last.y
    IN  /\ last.op = "eq" =>
            /\ last.out = FEq(get(x), v)
            /\ last.out = raw_eq(v, x)
        /\ last.op = "raw_eq" =>
            /\ last.out = FEq(get(x), v)
            /\ last.out = eq(x, v)
        /\ last.op = "partial_cmp" =>
            /\ last.out = FCmp(get(x), v)
            /\ raw_partial_cmp(v, x) = Reverse(last.out)
            /\ Unordered(v) => last.out = "None"
        /\ last.op = "raw_partial_cmp" =>
            /\ last.out = Reverse(FCmp(get(x), v))
            /\ last.out = Reverse(partial_cmp(x, v))
            /\ (last.out = "Equal") <=> eq(x, v)
            /\ Unordered(v) => last.out = "None"

C6_Witness ==
    /\ pc = "cmp"
    /\ last.op = "raw_partial_cmp"
    /\ last.out = "Greater"
    /\ InUnit(last.y)

\* C7: an f32 instance widened and narrowed again is itself; an f64 instance
\* whose value is an f32 value, narrowed and widened again, is itself; the
\* From conversions return what as_f64 / as_f32 return.
C7_ConversionRoundTrip ==
    /\ last.op = "as_f64" =>
        /\ as_f32(last.out) = last.x
        /\ get(last.out) = get(last.x)
    /\ (last.op = "as_f32" /\ get(last.x) \in F32) =>
        /\ as_f64(last.out) = last.x
        /\ get(last.out) = get(last.x)
    /\ last.op = "from_f32" =>
        /\ last.out = as_f64(last.x)
        /\ from_f64(last.out) = last.x
    /\ last.op = "from_f64" => last.out = as_f32(last.x)

\* a subnormal f32 value that went to f64 and is back
C7_Witness ==
    /\ last.op = "as_f32"
    /\ get(last.x) \in F32
    /\ get(last.x).mag # 0
    /\ get(last.x).mag < Pow2(Scale - MinExp32)
    /\ get(last.out) = get(last.x)

\* C8: whatever word the random source returns, the sampled instance passes
\* the range check of new.
C8_SampleInRange ==
    last.op = "sample" => new(last.out.ty, get(last.out)).tag = "Some"

C8_Witness ==
    /\ last.op = "sample"
    /\ get(last.out) = one

\* C9: with a fair random source, the loop of rand_generates_1, which samples
\* until the sample equals 1.0, returns.
C9_SamplesOne == (pc = "rand_generates_1") ~> (pc = "returned")

C9_Witness ==
    /\ pc = "returned"
    /\ Live
    /\ get(u.val) = one

\* C10: new is total: every argument gives Some or None, an argument that
\* is unordered with zero and one (NaN) gives None, and no instance ever
\* holds such a value.
C10_NewTotal ==
    /\ last.op = "new" => (last.out.tag \in {"Some", "None"} /\ u = last.out)
    /\ (last.op = "new" /\ Unordered(last.y)) => (last.out = None /\ ~Live)
    /\ Live => ~Unordered(get(u.val))

C10_Witness ==
    /\ pc = "api"
    /\ last.op = "new"
    /\ last.y = NaN
    /\ u = None

====
